---- MODULE Spec2Model ----
(***************************************************************************)
(* Verification model of the grid-recalculation core of the smart grid     *)
(* table: the segmentation of a combined Model into connected sub-models   *)
(* (src/model/Model.py, segment_model) and the ModelProcessor that decides *)
(* which segments are handed to the calculation worker pool.               *)
(*                                                                         *)
(* Entities are records.  A bus is [name, changed]; a line or transformer  *)
(* is [name, bus0, bus1, active, changed]; a generator, load or storage    *)
(* unit is [name, bus0, active, changed].  Names are integers (bus_3 is 3).*)
(* A Model is a record of six sequences, like the six lists of the class.  *)
(* Python lists are 0-based: element i of a Python list is element i+1 of  *)
(* the sequence that models it.  Segment ids keep the code's values:       *)
(* -1 is "no segment", 0 is the first segment.                             *)
(***************************************************************************)
EXTENDS Integers, Sequences, FiniteSets, TLC

\* ---------------------------------------------------------------- bounds
\* Inputs of segment_model.
MaxBuses == 3
MaxComponents == 2
\* Models of the table driven through calculation rounds.
MaxTableBuses == 3
MaxTableComponents == 1
\* Rounds of the worker pool, and segments handed over in one round.
MaxRounds == 2
MaxModels == 2

VARIABLES input_model, segmented_model_list, previous_segmented_model_list,
          model_list, pc, mode, history,
          worker_threads, worker_thread_instances, shutdown_flag, manager,
          signals, calculator

\* The table with its ModelProcessor.
table_vars == <<input_model, segmented_model_list,
                previous_segmented_model_list, model_list, pc, mode, history>>

\* The CalculatorThreadManager with its worker threads.
pool_vars == <<worker_threads, worker_thread_instances, shutdown_flag,
               manager, signals>>

\* One calculator (PyPSACalculatorLOPF, LPF or PF) with its segment.
calc_vars == <<calculator>>

vars == <<input_model, segmented_model_list, previous_segmented_model_list,
          model_list, pc, mode, history,
          worker_threads, worker_thread_instances, shutdown_flag, manager,
          signals, calculator>>

\* history is a record of what happened between the rounds, kept beside the
\* program's state: quiet - the last completed round was selective and no
\* entity was touched since; quiet_at_start - quiet, as the round in flight
\* found it; clean - the round that wrote the cache found every changed
\* flag cleared; mutated - the components replaced (changed = True) since
\* the last round returned; toggled - a line was switched since then;
\* repeat - the round in flight is a force round that follows a force round
\* with no entity touched in between.
\* No calculator is under study.
NoCalculator == [pc |-> "none"]

NoHistory ==
    [quiet |-> FALSE, quiet_at_start |-> FALSE, clean |-> FALSE,
     mutated |-> {}, toggled |-> FALSE, repeat |-> FALSE]

\* ------------------------------------------------------------- the Model
Model ==
    [buses |-> <<>>, lines |-> <<>>, transformers |-> <<>>,
     generators |-> <<>>, loads |-> <<>>, storage_units |-> <<>>]

Bus(name) == [name |-> name, changed |-> FALSE]

Line(name, bus0, bus1) ==
    [name |-> name, bus0 |-> bus0, bus1 |-> bus1, active |-> TRUE, changed |-> FALSE]

Component(name, bus0) ==
    [name |-> name, bus0 |-> bus0, active |-> TRUE, changed |-> FALSE]

\* Equality by name alone, the changed flag left out of the key.
key_name_only(e) == <<e.name>>

\* Entity equality of the component classes: the pair (name, changed).
key(e) == <<e.name, e.changed>>

\* list == list of Python on lists of entities: same length, equal by key at
\* every position.
ListEq(a, b) ==
    /\ Len(a) = Len(b)
    /\ \A i \in 1..Len(a) : key(a[i]) = key(b[i])

\* ---------------------------------------------------------- segment_model
IsActive(e) == e.active

\* Mutant: the connection list without the "if connection_line.active" tests.
connection_list_all(m) == m.lines \o m.transformers

\* connection_list: the active lines followed by the active transformers.
connection_list(m) ==
    SelectSeq(m.lines, IsActive) \o SelectSeq(m.transformers, IsActive)

\* bus_index_list: one BusIndex per bus; index and bus_name are fixed by the
\* position, so only the segment field is carried: a sequence of segment ids.
bus_index_list(m) == [i \in 1..Len(m.buses) |-> -1]

Unassigned(seg) == { i \in DOMAIN seg : seg[i] = -1 }

Min(S) == CHOOSE x \in S : \A y \in S : x <= y

\* The last bus without a segment opens the new segment.
AssignLastFree(seg, id) ==
    IF Unassigned(seg) = {} THEN seg
    ELSE [seg EXCEPT ![CHOOSE x \in Unassigned(seg) :
                          \A y \in Unassigned(seg) : x >= y] = id]

\* No bus is given the new segment id.
AssignNone(seg, id) == seg

\* "for bus in bus_index_list: if bus.segment == -1: bus.segment = id; break"
AssignFirstFree(seg, id) ==
    IF Unassigned(seg) = {} THEN seg
    ELSE [seg EXCEPT ![Min(Unassigned(seg))] = id]

\* The two inner "for other_bus in bus_index_list" loops: the first bus of
\* that name that has no segment yet gets the current id.
AssignByName(m, seg, bus_name, id) ==
    LET hit == { j \in Unassigned(seg) : m.buses[j].name = bus_name }
    IN  IF hit = {} THEN seg ELSE [seg EXCEPT ![Min(hit)] = id]

\* Mutant: an edge is followed from bus0 to bus1 only.
ConnectionStepOneWay(m, seg, i, connection, id) ==
    IF connection.bus0 = m.buses[i].name
    THEN AssignByName(m, seg, connection.bus1, id) ELSE seg

\* An edge followed from bus1 to bus0 only.
ConnectionStepBackward(m, seg, i, connection, id) ==
    IF connection.bus1 = m.buses[i].name
    THEN AssignByName(m, seg, connection.bus0, id) ELSE seg

\* Body of "for connection in connection_list" for the bus at position i.
ConnectionStep(m, seg, i, connection, id) ==
    LET s1 == IF connection.bus0 = m.buses[i].name
              THEN AssignByName(m, seg, connection.bus1, id) ELSE seg
    IN  IF connection.bus1 = m.buses[i].name
        THEN AssignByName(m, s1, connection.bus0, id) ELSE s1

\* "for connection in connection_list", from connection c on; conn is the
\* connection list.
RECURSIVE ConnectionLoop(_, _, _, _, _, _)
ConnectionLoop(m, conn, seg, i, c, id) ==
    IF c > Len(conn) THEN seg
    ELSE ConnectionLoop(m, conn, ConnectionStep(m, seg, i, conn[c], id),
                        i, c + 1, id)

\* One pass of "for bus_index in bus_index_list" (buses assigned earlier in
\* the pass are expanded later in the same pass).
RECURSIVE BusSweep(_, _, _, _, _)
BusSweep(m, conn, seg, i, id) ==
    IF i > Len(seg) THEN seg
    ELSE BusSweep(m, conn,
                  IF seg[i] = id THEN ConnectionLoop(m, conn, seg, i, 1, id)
                  ELSE seg,
                  i + 1, id)

\* "while bus_segment_allocated": repeat the pass until it assigns nothing.
RECURSIVE FloodFill(_, _, _, _)
FloodFill(m, conn, seg, id) ==
    LET s == BusSweep(m, conn, seg, 1, id)
    IN  IF s # seg THEN FloodFill(m, conn, s, id) ELSE s

\* "while not finished": finished is decided after the first free bus got
\* the id and before the flood fill of that id.  The result is the final
\* bus_index_list and the final current_grid_id.
RECURSIVE SegmentLoop(_, _, _, _)
SegmentLoop(m, conn, seg, current_grid_id) ==
    LET id       == current_grid_id + 1
        s1       == AssignFirstFree(seg, id)
        finished == Unassigned(s1) = {}
        s2       == FloodFill(m, conn, s1, id)
    IN  IF finished THEN [segment |-> s2, current_grid_id |-> id]
        ELSE SegmentLoop(m, conn, s2, id)

\* "while bus_segment_allocated" for one id with the number of passes it
\* makes, counted up to "fuel" passes beyond the first: the bus_index_list
\* it ends with and the count.
RECURSIVE FloodFillPasses(_, _, _, _, _)
FloodFillPasses(m, conn, seg, id, fuel) ==
    LET s == BusSweep(m, conn, seg, 1, id)
    IN  IF s # seg /\ fuel > 0
        THEN LET rest == FloodFillPasses(m, conn, s, id, fuel - 1)
             IN  [segment |-> rest.segment, passes |-> 1 + rest.passes]
        ELSE [segment |-> s, passes |-> 1]

\* The work of "while not finished": the number of times its body runs and
\* the largest number of passes of the inner while loop, counted up to
\* "fuel" runs beyond the first.
RECURSIVE SegmentLoopWork(_, _, _, _, _)
SegmentLoopWork(m, conn, seg, current_grid_id, fuel) ==
    LET id       == current_grid_id + 1
        s1       == AssignFirstFree(seg, id)
        finished == Unassigned(s1) = {}
        fill     == FloodFillPasses(m, conn, s1, id, Len(seg) + 1)
        passes   == fill.passes
        s2       == fill.segment
    IN  IF finished \/ fuel = 0 THEN [rounds |-> 1, passes |-> passes]
        ELSE LET rest == SegmentLoopWork(m, conn, s2, id, fuel - 1)
             IN  [rounds |-> 1 + rest.rounds,
                  passes |-> IF passes > rest.passes THEN passes
                             ELSE rest.passes]

\* The work segment_model does on model m in its two while loops.
segment_model_work(m) ==
    SegmentLoopWork(m, connection_list(m), bus_index_list(m), -1,
                    Len(m.buses) + 1)

\* Mutant: one model per id handed out, the last id included.
models_found_plus_one(current_grid_id) == current_grid_id + 1

\* "models_found = current_grid_id" after the loop.
models_found(current_grid_id) == current_grid_id

\* An edge is listed with its bus0 whether it is active or not.
EdgeOfBusAnyStatus(e, bus_name) == e.bus0 = bus_name

EdgeOfBus(e, bus_name) == e.bus0 = bus_name /\ e.active

\* A generator, load or storage unit listed with every bus.
InjectionOfAnyBus(e, bus_name) == TRUE

InjectionOfBus(e, bus_name) == e.bus0 = bus_name

\* Lines 374-382: over the buses of segment i in list order, the active
\* lines (transformers) of list "lst" whose bus0 is that bus.
RECURSIVE CollectEdges(_, _, _, _, _)
CollectEdges(m, seg, i, b, lst) ==
    IF b > Len(seg) THEN <<>>
    ELSE (IF seg[b] = i
          THEN LET T(e) == EdgeOfBus(e, m.buses[b].name) IN SelectSeq(lst, T)
          ELSE <<>>)
         \o CollectEdges(m, seg, i, b + 1, lst)

\* Lines 384-397: the same for generators, loads and storage units.
RECURSIVE CollectInjections(_, _, _, _, _)
CollectInjections(m, seg, i, b, lst) ==
    IF b > Len(seg) THEN <<>>
    ELSE (IF seg[b] = i
          THEN LET T(e) == InjectionOfBus(e, m.buses[b].name) IN SelectSeq(lst, T)
          ELSE <<>>)
         \o CollectInjections(m, seg, i, b + 1, lst)

\* Mutant: the bus is added without the test "bus_index.segment == i".
SegmentOfEveryBus(m, seg, i) ==
    [buses         |-> m.buses,
     lines         |-> CollectEdges(m, seg, i, 1, m.lines),
     transformers  |-> CollectEdges(m, seg, i, 1, m.transformers),
     generators    |-> CollectInjections(m, seg, i, 1, m.generators),
     loads         |-> CollectInjections(m, seg, i, 1, m.loads),
     storage_units |-> CollectInjections(m, seg, i, 1, m.storage_units)]

\* model_list[i] of the second half of segment_model.
SegmentOf(m, seg, i) ==
    LET InSeg(b) == seg[b] = i
        idx == SelectSeq([b \in 1..Len(seg) |-> b], InSeg)
    IN  [buses         |-> [k \in 1..Len(idx) |-> m.buses[idx[k]]],
         lines         |-> CollectEdges(m, seg, i, 1, m.lines),
         transformers  |-> CollectEdges(m, seg, i, 1, m.transformers),
         generators    |-> CollectInjections(m, seg, i, 1, m.generators),
         loads         |-> CollectInjections(m, seg, i, 1, m.loads),
         storage_units |-> CollectInjections(m, seg, i, 1, m.storage_units)]

segment_model(m) ==
    LET r == SegmentLoop(m, connection_list(m), bus_index_list(m), -1)
    IN  [i \in 1..models_found(r.current_grid_id) |->
            SegmentOf(m, r.segment, i - 1)]

\* ------------------------------------------------------------ input models
\* The bus list of a model with n buses: bus_0 .. bus_(n-1), in that order.
BusList(n) == [i \in 1..n |-> Bus(i - 1)]

\* The components of one list are named by position and the code treats the
\* names of lines and of components as opaque, so a list is drawn in one
\* order only: by rising code of (bus0, bus1, active, changed).
Bit(b) == IF b THEN 1 ELSE 0

EdgeCode(t, N) ==
    ((t[1] * (Cardinality(N) + 1) + t[2]) * 2 + Bit(t[3])) * 2 + Bit(t[4])

InjectionCode(t) == (t[1] * 2 + Bit(t[2])) * 2 + Bit(t[3])

\* All lists of n lines (or transformers) line_0 .. line_(n-1) with the
\* endpoints drawn from the names N, "active" from A and "changed" from C.
EdgeLists(n, N, A, C) ==
    { [i \in 1..n |-> [name |-> i - 1, bus0 |-> f[i][1], bus1 |-> f[i][2],
                       active |-> f[i][3], changed |-> f[i][4]]] :
      f \in { g \in [1..n -> N \X N \X A \X C] :
                \A i \in 1..(n - 1) : EdgeCode(g[i], N) <= EdgeCode(g[i + 1], N) } }

\* All lists of n generators (loads, storage units).
InjectionLists(n, N, A, C) ==
    { [i \in 1..n |-> [name |-> i - 1, bus0 |-> f[i][1], active |-> f[i][2],
                       changed |-> f[i][3]]] :
      f \in { g \in [1..n -> N \X A \X C] :
                \A i \in 1..(n - 1) : InjectionCode(g[i]) <= InjectionCode(g[i + 1]) } }

\* The ways to split at most maxc components over lines, transformers,
\* generators, loads and storage units.
Counts(maxc) ==
    { c \in [1..5 -> 0..maxc] : c[1] + c[2] + c[3] + c[4] + c[5] <= maxc }

\* The models with nb buses and n[k] components of kind k, which name the
\* buses N.  The code never sets the changed flag of a bus or of a line.
ModelsOver(nb, n, N, A, C) ==
    [buses : {BusList(nb)}, lines : EdgeLists(n[1], N, A, {FALSE}),
     transformers  : EdgeLists(n[2], N, A, C),
     generators    : InjectionLists(n[3], N, A, C),
     loads         : InjectionLists(n[4], N, A, C),
     storage_units : InjectionLists(n[5], N, A, C)]

\* Inputs of segment_model: up to MaxBuses buses and MaxComponents
\* components that name buses of the model; and, with at least two buses
\* fewer than MaxBuses, components that may also name bus_nb, which is not
\* in the model.
IsInputModel(m) ==
    \/ \E nb \in 0..MaxBuses, n \in Counts(MaxComponents) :
          m \in ModelsOver(nb, n, 0..(nb - 1), BOOLEAN, {FALSE})
    \/ \E nb \in 0..(MaxBuses - 2), n \in Counts(MaxComponents) :
          m \in ModelsOver(nb, n, 0..nb, BOOLEAN, {FALSE})

\* Models of the table: every component names a bus of the model, is active
\* (Component.__init__) and, fresh from Scenario.get_module, has its changed
\* flag set.
IsTableModel(m) ==
    \E nb \in 0..MaxTableBuses, n \in Counts(MaxTableComponents) :
        m \in ModelsOver(nb, n, 0..(nb - 1), {TRUE}, {TRUE})

\* The model of test/model_segmentation_test.py (setUp); "split" is the test
\* step self.model.lines[4].active = False.
TestLine(i, b0, b1, split) ==
    [Line(i, b0, b1) EXCEPT !.active = ~(split /\ i = 4)]

TestModel(split) ==
    [buses |-> [i \in 1..8 |-> Bus(i - 1)],
     lines |-> << TestLine(0, 0, 1, split), TestLine(1, 1, 2, split),
                  TestLine(2, 2, 3, split), TestLine(3, 3, 0, split),
                  TestLine(4, 3, 4, split), TestLine(5, 4, 5, split),
                  TestLine(6, 5, 6, split), TestLine(7, 6, 7, split),
                  TestLine(8, 7, 4, split) >>,
     transformers  |-> <<>>,
     generators    |-> << Component(0, 0) >>,
     loads         |-> << Component(0, 6) >>,
     storage_units |-> << Component(0, 2) >>]

\* ------------------------------------------- CalculatorThreadManager
\* The worker threads the constructor creates: range(5) in the code, fewer
\* here, so that a round with more models than threads, which adds threads,
\* is within reach.
InitialThreads == 1

\* A segment handed to the pool stands for itself: the pair of the round and
\* the place in that round's model_list.  NoModel is None.
NoModel == <<0, 0>>

ModelOfRound(round, i) == <<round, i>>

\* The calculation instance of a slot: the input model it was given and
\* what its last build_model and calculate left behind.  A time is named
\* by the segment it was measured on.
CalculationInstance(method) ==
    [method |-> method,
     _input_model |-> NoModel, _status |-> "", _condition |-> "",
     _network_build_time |-> NoModel, _calculation_time |-> NoModel]

\* The selectors __create_calculation_instance knows.
CalculationMethods == {"optimize", "lopf", "lpf", "pf"}

\* class ThreadData as the manager fills it in for a new worker thread.
ThreadData(model, model_id, method) ==
    [calculation_instance |-> CalculationInstance(method),
     model |-> model, model_id |-> model_id,
     wakeup_event |-> FALSE, finished_event |-> FALSE,
     calculation_time |-> NoModel, build_time |-> NoModel,
     status |-> "ok", status_extended |-> "booting"]

\* What happened in a slot since the round began: start signals consumed,
\* solver runs, completion signals raised, whether the solver raised, and
\* the segment whose work raised the completion signal that is now set.
NoSignals ==
    [consumed |-> 0, solved |-> 0, completed |-> 0, raised |-> FALSE,
     finished_by |-> NoModel]

\* What an invocation that returns leaves in status and condition: the
\* result of the solver, or the failure reported without the solver for a
\* segment that has no generation.  The pool passes the pair on unread, so
\* one solver result stands for all.
SolverOutcomes ==
    { <<"ok", "optimal">>, <<"failed", "no generation">> }

\* CalculatorThreadManager.__init__: the started threads, no round yet.
\* manager holds the fields of the CalculatorThreadManager, the place of
\* the main thread in calculate or shutdown, and, beside them, the number
\* of rounds so far and the largest number of models one of them had.
PoolInit ==
    /\ worker_threads =
          [i \in 1..InitialThreads |-> ThreadData(NoModel, i - 1, "optimize")]
    /\ worker_thread_instances = [i \in 1..InitialThreads |-> "loop"]
    /\ shutdown_flag = FALSE
    /\ manager = [pc |-> "idle", i |-> 0, model_list |-> <<>>, round |-> 0,
                  largest |-> 0, calculation_method |-> "optimize"]
    /\ signals = [i \in 1..InitialThreads |-> NoSignals]

\* One thread fewer than the round needs.
ThreadsToAddOneLess(model_count, worker_thread_count) ==
    IF model_count > worker_thread_count
    THEN model_count - worker_thread_count - 1 ELSE 0

\* Lines 158-159: range(worker_thread_count, model_count), when there are
\* more models than threads.
ThreadsToAdd(model_count, worker_thread_count) ==
    IF model_count > worker_thread_count
    THEN model_count - worker_thread_count ELSE 0

\* Every slot is handed the first model.
ModelForSlotFirst(i) == manager.model_list[1]

\* Line 172: self.__model_list[i].
ModelForSlot(i) == manager.model_list[i]

\* Only the selector is changed.
set_calculation_method_selector_only ==
    /\ manager.pc = "idle"
    /\ ~shutdown_flag
    /\ \E method \in CalculationMethods :
          manager' = [manager EXCEPT !.calculation_method = method]
    /\ UNCHANGED <<worker_threads, worker_thread_instances, shutdown_flag,
                   signals, table_vars, calc_vars>>

\* set_calculation_method: with a selector other than the current one every
\* worker's calculation instance is replaced by a new one.  The main loop
\* calls it between rounds.
set_calculation_method ==
    /\ manager.pc = "idle"
    /\ ~shutdown_flag
    /\ \E method \in CalculationMethods :
          /\ worker_threads' =
                IF manager.calculation_method # method
                THEN [i \in DOMAIN worker_threads |->
                        [worker_threads[i] EXCEPT
                            !.calculation_instance = CalculationInstance(method)]]
                ELSE worker_threads
          /\ manager' = [manager EXCEPT !.calculation_method = method]
    /\ UNCHANGED <<worker_thread_instances, shutdown_flag, signals, table_vars, calc_vars>>

\* calculate, lines 149-167: the round's model_list is taken over and a
\* worker thread is added for every model beyond the threads there are.
calculate ==
    /\ manager.pc = "idle"
    /\ ~shutdown_flag
    /\ manager.round < MaxRounds
    /\ \E model_count \in 0..MaxModels :
          LET round == manager.round + 1
              new_list == [i \in 1..model_count |-> ModelOfRound(round, i)]
              worker_thread_count == Len(worker_thread_instances)
              added == ThreadsToAdd(model_count, worker_thread_count)
          IN  /\ manager' = [manager EXCEPT !.pc = "start", !.i = 1,
                                             !.model_list = new_list,
                                             !.round = round,
                                             !.largest =
                                                IF model_count > @
                                                THEN model_count ELSE @]
              /\ worker_threads' = worker_threads \o
                    [k \in 1..added |->
                        ThreadData(new_list[worker_thread_count + k],
                                   worker_thread_count + k - 1,
                                   manager.calculation_method)]
              /\ worker_thread_instances' = worker_thread_instances \o
                    [k \in 1..added |-> "loop"]
              /\ signals' = [k \in 1..(worker_thread_count + added) |-> NoSignals]
    /\ UNCHANGED <<shutdown_flag, table_vars, calc_vars>>

\* calculate, lines 171-173: slot i is given its model and its start signal.
calculate_start ==
    /\ manager.pc = "start"
    /\ IF manager.i <= Len(manager.model_list)
       THEN /\ worker_threads' =
                  [worker_threads EXCEPT
                      ![manager.i].model = ModelForSlot(manager.i),
                      ![manager.i].wakeup_event = TRUE]
            /\ manager' = [manager EXCEPT !.i = @ + 1]
       ELSE /\ manager' = [manager EXCEPT !.pc = "wait", !.i = 1]
            /\ UNCHANGED worker_threads
    /\ UNCHANGED <<worker_thread_instances, shutdown_flag, signals, table_vars, calc_vars>>

\* An orchestrator that does not block on the completion signal.
calculate_wait_no_block ==
    /\ manager.pc = "wait"
    /\ IF manager.i <= Len(manager.model_list)
       THEN /\ worker_threads' =
                  [worker_threads EXCEPT ![manager.i].finished_event = FALSE]
            /\ manager' = [manager EXCEPT !.i = @ + 1]
       ELSE /\ manager' = [manager EXCEPT !.pc = "print", !.i = 1]
            /\ UNCHANGED worker_threads
    /\ UNCHANGED <<worker_thread_instances, shutdown_flag, signals, table_vars, calc_vars>>

\* calculate, lines 176-178: finished_event.wait() and finished_event.clear()
\* on every slot of the round, in order.
calculate_wait ==
    /\ manager.pc = "wait"
    /\ IF manager.i <= Len(manager.model_list)
       THEN /\ worker_threads[manager.i].finished_event
            /\ worker_threads' =
                  [worker_threads EXCEPT ![manager.i].finished_event = FALSE]
            /\ manager' = [manager EXCEPT !.i = @ + 1]
       ELSE /\ manager' = [manager EXCEPT !.pc = "print", !.i = 1]
            /\ UNCHANGED worker_threads
    /\ UNCHANGED <<worker_thread_instances, shutdown_flag, signals, table_vars, calc_vars>>

\* calculate, lines 180-193: the results of the slots are read and printed,
\* and calculate returns.
calculate_print ==
    /\ manager.pc = "print"
    /\ manager' = [manager EXCEPT !.pc = "idle", !.i = 0]
    /\ UNCHANGED <<worker_threads, worker_thread_instances, shutdown_flag,
                   signals, table_vars, calc_vars>>

\* shutdown, line 202: the global shutdown flag is set.  The main loop calls
\* it between rounds.
shutdown ==
    /\ manager.pc = "idle"
    /\ ~shutdown_flag
    /\ shutdown_flag' = TRUE
    /\ manager' = [manager EXCEPT !.pc = "wakeup", !.i = 1]
    /\ UNCHANGED <<worker_threads, worker_thread_instances, signals, table_vars, calc_vars>>

\* A shutdown that sets the flag and wakes no worker.
shutdown_wakeup_none ==
    /\ manager.pc = "wakeup"
    /\ manager' = [manager EXCEPT !.pc = "join", !.i = 1]
    /\ UNCHANGED <<worker_threads, worker_thread_instances, shutdown_flag,
                   signals, table_vars, calc_vars>>

\* shutdown, lines 205-206: every worker's start signal is raised.
shutdown_wakeup ==
    /\ manager.pc = "wakeup"
    /\ IF manager.i <= Len(worker_threads)
       THEN /\ worker_threads' =
                  [worker_threads EXCEPT ![manager.i].wakeup_event = TRUE]
            /\ manager' = [manager EXCEPT !.i = @ + 1]
       ELSE /\ manager' = [manager EXCEPT !.pc = "join", !.i = 1]
            /\ UNCHANGED worker_threads
    /\ UNCHANGED <<worker_thread_instances, shutdown_flag, signals, table_vars, calc_vars>>

\* A thread that has left __calculate_thread, by return or by an exception.
Terminated(i) ==
    worker_thread_instances[i] \in {"returned", "raised", "export_raised"}

\* shutdown, lines 209-210: thread.join() on every worker thread, in order.
shutdown_join ==
    /\ manager.pc = "join"
    /\ IF manager.i <= Len(worker_thread_instances)
       THEN /\ Terminated(manager.i)
            /\ manager' = [manager EXCEPT !.i = @ + 1]
       ELSE manager' = [manager EXCEPT !.pc = "shut", !.i = 0]
    /\ UNCHANGED <<worker_threads, worker_thread_instances, shutdown_flag,
                   signals, table_vars, calc_vars>>

\* ------------------------------------------------- __calculate_thread
\* Worker thread i moves from one place of __calculate_thread to another.
Goto(i, from, to) ==
    /\ worker_thread_instances[i] = from
    /\ worker_thread_instances' = [worker_thread_instances EXCEPT ![i] = to]

\* A worker that enters its loop whatever the shutdown flag says.
thread_loop_ignores_flag(i) ==
    /\ Goto(i, "loop", "wait")
    /\ UNCHANGED <<worker_threads, shutdown_flag, manager, signals, table_vars, calc_vars>>

\* Line 221: while (self.__shutdown == False).
thread_loop(i) ==
    /\ Goto(i, "loop", IF shutdown_flag THEN "returned" ELSE "wait")
    /\ UNCHANGED <<worker_threads, shutdown_flag, manager, signals, table_vars, calc_vars>>

\* Line 229: wakeup_event.wait().
thread_wait(i) ==
    /\ worker_threads[i].wakeup_event
    /\ Goto(i, "wait", "clear")
    /\ UNCHANGED <<worker_threads, shutdown_flag, manager, signals, table_vars, calc_vars>>

\* A worker that leaves its start signal raised.
thread_clear_keeps_signal(i) ==
    /\ Goto(i, "clear", "check")
    /\ signals' = [signals EXCEPT ![i].consumed = @ + 1]
    /\ UNCHANGED <<worker_threads, shutdown_flag, manager, table_vars, calc_vars>>

\* Line 230: wakeup_event.clear().
thread_clear(i) ==
    /\ Goto(i, "clear", "check")
    /\ worker_threads' = [worker_threads EXCEPT ![i].wakeup_event = FALSE]
    /\ signals' = [signals EXCEPT ![i].consumed = @ + 1]
    /\ UNCHANGED <<shutdown_flag, manager, table_vars, calc_vars>>

\* A worker that goes on to the solver whatever the shutdown flag says.
thread_check_ignores_flag(i) ==
    /\ Goto(i, "check", "solve")
    /\ UNCHANGED <<worker_threads, shutdown_flag, manager, signals, table_vars, calc_vars>>

\* Lines 233-234: exit if the shutdown flag is set.
thread_check(i) ==
    /\ Goto(i, "check", IF shutdown_flag THEN "returned" ELSE "solve")
    /\ UNCHANGED <<worker_threads, shutdown_flag, manager, signals, table_vars, calc_vars>>

\* Lines 237-240, the calls return: the instance was given thread.model,
\* built it and ran the solver, which left a status and a condition.
thread_solve(i) ==
    /\ Goto(i, "solve", "retrieve")
    /\ \E outcome \in SolverOutcomes :
          worker_threads' =
              [worker_threads EXCEPT
                  ![i].calculation_instance =
                      [method              |-> worker_threads[i].calculation_instance.method,
                       _input_model        |-> worker_threads[i].model,
                       _status             |-> outcome[1],
                       _condition          |-> outcome[2],
                       _network_build_time |-> worker_threads[i].model,
                       _calculation_time   |-> worker_threads[i].model]]
    /\ signals' = [signals EXCEPT ![i].solved = @ + 1]
    /\ UNCHANGED <<shutdown_flag, manager, table_vars, calc_vars>>

\* Lines 237-240, build_model or calculate raises: no handler stands
\* between the call and the thread's target, so the thread ends.
thread_solve_raises(i) ==
    /\ Goto(i, "solve", "raised")
    /\ worker_threads' =
          [worker_threads EXCEPT
              ![i].calculation_instance._input_model = worker_threads[i].model]
    /\ signals' = [signals EXCEPT ![i].solved = @ + 1, ![i].raised = TRUE]
    /\ UNCHANGED <<shutdown_flag, manager, table_vars, calc_vars>>

\* Lines 243-246: the benchmarks and the status are copied to the ThreadData.
thread_retrieve(i) ==
    /\ Goto(i, "retrieve", "finish")
    /\ worker_threads' =
          [worker_threads EXCEPT
              ![i].build_time = worker_threads[i].calculation_instance._network_build_time,
              ![i].calculation_time = worker_threads[i].calculation_instance._calculation_time,
              ![i].status = worker_threads[i].calculation_instance._status,
              ![i].status_extended = worker_threads[i].calculation_instance._condition]
    /\ UNCHANGED <<shutdown_flag, manager, signals, table_vars, calc_vars>>

\* Line 249: finished_event.set().
thread_finished(i) ==
    /\ Goto(i, "finish", "export")
    /\ worker_threads' = [worker_threads EXCEPT ![i].finished_event = TRUE]
    /\ signals' =
          [signals EXCEPT
              ![i].completed = @ + 1,
              ![i].finished_by = worker_threads[i].calculation_instance._input_model]
    /\ UNCHANGED <<shutdown_flag, manager, table_vars, calc_vars>>

\* Line 252: export_result, after which the loop condition is checked again.
thread_export(i) ==
    /\ Goto(i, "export", "loop")
    /\ UNCHANGED <<worker_threads, shutdown_flag, manager, signals, table_vars, calc_vars>>

\* Line 252, export_result raises: no handler stands between the call and
\* the thread's target, so the thread ends.
thread_export_raises(i) ==
    /\ Goto(i, "export", "export_raised")
    /\ UNCHANGED <<worker_threads, shutdown_flag, manager, signals, table_vars, calc_vars>>

calculate_thread(i) ==
    \/ thread_loop(i)
    \/ thread_wait(i)
    \/ thread_clear(i)
    \/ thread_check(i)
    \/ thread_solve(i)
    \/ thread_solve_raises(i)
    \/ thread_retrieve(i)
    \/ thread_finished(i)
    \/ thread_export(i)

\* The pool alone: the table plays no part.
InitPool ==
    /\ input_model = Model
    /\ segmented_model_list = <<>>
    /\ previous_segmented_model_list = <<>>
    /\ model_list = <<>>
    /\ pc = "pool"
    /\ mode = "none"
    /\ history = NoHistory
    /\ PoolInit
    /\ calculator = NoCalculator

NextPool ==
    \/ calculate
    \/ calculate_start
    \/ calculate_wait
    \/ calculate_print
    \/ shutdown
    \/ shutdown_wakeup
    \/ shutdown_join
    \/ \E i \in DOMAIN worker_thread_instances : calculate_thread(i)

SpecPool == InitPool /\ [][NextPool]_vars

\* The pool in service, with changes of the calculation method between
\* the rounds.
NextMethod ==
    \/ set_calculation_method
    \/ calculate
    \/ calculate_start
    \/ calculate_wait
    \/ calculate_print
    \/ \E i \in DOMAIN worker_thread_instances : calculate_thread(i)

SpecMethod == InitPool /\ [][NextMethod]_vars

\* The pool with an export_result that can fail.
NextExport ==
    \/ NextPool
    \/ \E i \in DOMAIN worker_thread_instances : thread_export_raises(i)

SpecExport == InitPool /\ [][NextExport]_vars

\* calculate, lines 149-167, called after shutdown() has returned: nothing
\* in calculate looks at the shutdown flag, so the call does what it does in
\* service, threads added for the models beyond the threads there are
\* included.
calculate_after_shutdown ==
    /\ manager.pc = "shut"
    /\ \E model_count \in 0..MaxModels :
          LET round == manager.round + 1
              new_list == [i \in 1..model_count |-> ModelOfRound(round, i)]
              worker_thread_count == Len(worker_thread_instances)
              added == ThreadsToAdd(model_count, worker_thread_count)
          IN  /\ manager' = [manager EXCEPT !.pc = "start", !.i = 1,
                                             !.model_list = new_list,
                                             !.round = round,
                                             !.largest =
                                                IF model_count > @
                                                THEN model_count ELSE @]
              /\ worker_threads' = worker_threads \o
                    [k \in 1..added |->
                        ThreadData(new_list[worker_thread_count + k],
                                   worker_thread_count + k - 1,
                                   manager.calculation_method)]
              /\ worker_thread_instances' = worker_thread_instances \o
                    [k \in 1..added |-> "loop"]
              /\ signals' = [k \in 1..(worker_thread_count + added) |-> NoSignals]
    /\ UNCHANGED <<shutdown_flag, table_vars, calc_vars>>

\* The pool with a caller that goes on calling calculate after shutdown.
NextShut ==
    \/ NextPool
    \/ calculate_after_shutdown

SpecShut == InitPool /\ [][NextShut]_vars

\* The threads run and the calls of the main thread go on: every thread
\* that can take a step takes one, and so does the manager.
ManagerNext ==
    \/ calculate_start
    \/ calculate_wait
    \/ calculate_print
    \/ shutdown_wakeup
    \/ shutdown_join

MaxThreads == IF MaxModels > InitialThreads THEN MaxModels ELSE InitialThreads

PoolFairness ==
    /\ WF_vars(ManagerNext)
    /\ \A i \in 1..MaxThreads :
          WF_vars(i \in DOMAIN worker_thread_instances /\ calculate_thread(i))

FairSpecPool == SpecPool /\ PoolFairness

\* ------------------------------------------- specification of segment_model
\* Init draws the input model; the one action applies segment_model to it.
InitSeg ==
    /\ \/ IsInputModel(input_model)
       \/ input_model \in { TestModel(FALSE), TestModel(TRUE) }
    /\ segmented_model_list = <<>>
    /\ previous_segmented_model_list = <<>>
    /\ model_list = <<>>
    /\ pc = "input"
    /\ mode = "none"
    /\ history = NoHistory
    /\ PoolInit
    /\ calculator = NoCalculator

\* A call that uses up the lines of its input.
SegmentModelConsuming ==
    /\ pc = "input"
    /\ segmented_model_list' = segment_model(input_model)
    /\ input_model' = [input_model EXCEPT !.lines = <<>>]
    /\ pc' = "segmented"
    /\ UNCHANGED <<previous_segmented_model_list, model_list, mode, history>>
    /\ UNCHANGED <<pool_vars, calc_vars>>

SegmentModel ==
    /\ pc = "input"
    /\ segmented_model_list' = segment_model(input_model)
    /\ pc' = "segmented"
    /\ UNCHANGED <<input_model, previous_segmented_model_list, model_list,
                   mode, history>>
    /\ UNCHANGED <<pool_vars, calc_vars>>

\* A second call of segment_model on the model the first call was given;
\* its result is kept in model_list, beside the result of the first call.
SegmentModelAgain ==
    /\ pc = "segmented"
    /\ model_list' = segment_model(input_model)
    /\ pc' = "segmented_again"
    /\ UNCHANGED <<input_model, segmented_model_list,
                   previous_segmented_model_list, mode, history>>
    /\ UNCHANGED <<pool_vars, calc_vars>>

NextSeg == SegmentModel

SpecSeg == InitSeg /\ [][NextSeg]_vars

\* segment_model called twice on one model.
NextSegTwice == SegmentModel \/ SegmentModelAgain

SpecSegTwice == InitSeg /\ [][NextSegTwice]_vars

\* ----------------------------------------------------------- comparisons
\* Model.compare_model_structure: same buses and same lines, list against
\* list (Python list equality, element by element with the entity equality).
compare_model_structure(self, other_model) ==
    /\ Len(self.buses) = Len(other_model.buses)
    /\ Len(self.lines) = Len(other_model.lines)
    /\ ListEq(self.buses, other_model.buses)
    /\ ListEq(self.lines, other_model.lines)

\* Model.compare_model_components: the same for generators, loads, storage
\* units and transformers.
compare_model_components(self, other_model) ==
    /\ Len(self.generators) = Len(other_model.generators)
    /\ Len(self.loads) = Len(other_model.loads)
    /\ Len(self.storage_units) = Len(other_model.storage_units)
    /\ Len(self.transformers) = Len(other_model.transformers)
    /\ ListEq(self.generators, other_model.generators)
    /\ ListEq(self.loads, other_model.loads)
    /\ ListEq(self.storage_units, other_model.storage_units)
    /\ ListEq(self.transformers, other_model.transformers)

\* Model.reset_changed_components: changed = False on every entity.
ClearChanged(lst) == [i \in DOMAIN lst |-> [lst[i] EXCEPT !.changed = FALSE]]

reset_changed_components(m) ==
    [buses         |-> ClearChanged(m.buses),
     lines         |-> ClearChanged(m.lines),
     transformers  |-> ClearChanged(m.transformers),
     generators    |-> ClearChanged(m.generators),
     loads         |-> ClearChanged(m.loads),
     storage_units |-> ClearChanged(m.storage_units)]

\* Segments that own copies of the entities: a reset of the input model
\* does not reach them.
ResetNotShared(models) == models

\* The segments hold references to the entities of the input model, so a
\* write to an entity of the input model shows in every list of segments
\* that shares the entity; a deepcopy does not share.
ResetShared(models) ==
    [i \in DOMAIN models |-> reset_changed_components(models[i])]

SetLineActive(lst, name, status) ==
    [i \in DOMAIN lst |->
        IF lst[i].name = name THEN [lst[i] EXCEPT !.active = status] ELSE lst[i]]

SetLineActiveShared(models, name, status) ==
    [i \in DOMAIN models |->
        [models[i] EXCEPT !.lines = SetLineActive(@, name, status)]]

\* ------------------------------------------------------- ModelProcessor
\* The comparison with compare_model_components left out.
NoPreviousMatchStructureOnly(model) ==
    ~ \E k \in DOMAIN previous_segmented_model_list :
          compare_model_structure(model, previous_segmented_model_list[k])

\* Lines 92-101 of selective_calculate: the new segments that no previous
\* segment equals in components and in structure.
NoPreviousMatch(model) ==
    ~ \E k \in DOMAIN previous_segmented_model_list :
          /\ compare_model_components(model, previous_segmented_model_list[k])
          /\ compare_model_structure(model, previous_segmented_model_list[k])

\* With an empty cache nothing is chosen.
ModelsToCalculateNoneOnEmptyCache(segments) ==
    IF previous_segmented_model_list = <<>> THEN <<>>
    ELSE SelectSeq(segments, NoPreviousMatch)

ModelsToCalculate(segments) == SelectSeq(segments, NoPreviousMatch)

\* No entity of the model carries a set changed flag.
NoChangedFlag(m) ==
    \A f \in DOMAIN m : \A i \in DOMAIN m[f] : ~m[f][i].changed

\* The table with its ModelProcessor after construction; no round has run.
Init ==
    /\ IsTableModel(input_model)
    /\ segmented_model_list = <<>>
    /\ previous_segmented_model_list = <<>>
    /\ model_list = <<>>
    /\ pc = "idle"
    /\ mode = "none"
    /\ history = NoHistory
    /\ PoolInit
    /\ calculator = NoCalculator

\* Scenario.get_module / Platform.add_module: a component of the table is
\* replaced by a freshly created one of the same name, whose changed flag
\* is set.  The segments of earlier rounds keep the old object.
reload_modules ==
    /\ pc = "idle"
    /\ \E f \in {"transformers", "generators", "loads", "storage_units"} :
          \E i \in DOMAIN input_model[f] :
              /\ ~input_model[f][i].changed
              /\ input_model' = [input_model EXCEPT ![f][i].changed = TRUE]
              /\ history' = [history EXCEPT
                                !.quiet = FALSE,
                                !.mutated = @ \cup {<<f, input_model[f][i].name>>}]
    /\ UNCHANGED <<segmented_model_list, previous_segmented_model_list,
                   model_list, pc, mode>>
    /\ UNCHANGED <<pool_vars, calc_vars>>

\* A line switched by a second thread, whatever the main loop is doing.
table_set_line_status_any_time ==
    /\ \E line_id \in DOMAIN input_model.lines, status \in BOOLEAN :
          /\ input_model.lines[line_id].active # status
          /\ input_model' = [input_model EXCEPT !.lines[line_id].active = status]
          /\ segmented_model_list' =
                SetLineActiveShared(segmented_model_list,
                                    input_model.lines[line_id].name, status)
          /\ model_list' =
                SetLineActiveShared(model_list,
                                    input_model.lines[line_id].name, status)
    /\ history' = [history EXCEPT !.quiet = FALSE, !.toggled = TRUE]
    /\ UNCHANGED <<previous_segmented_model_list, pc, mode>>
    /\ UNCHANGED <<pool_vars, calc_vars>>

\* SmartGridTable.table_set_line_status: line_list[line_id].active = status.
\* The handlers run in the main loop of Application.py, between two rounds.
table_set_line_status ==
    /\ pc = "idle"
    /\ \E line_id \in DOMAIN input_model.lines, status \in BOOLEAN :
          /\ input_model.lines[line_id].active # status
          /\ input_model' = [input_model EXCEPT !.lines[line_id].active = status]
          /\ segmented_model_list' =
                SetLineActiveShared(segmented_model_list,
                                    input_model.lines[line_id].name, status)
          /\ model_list' =
                SetLineActiveShared(model_list,
                                    input_model.lines[line_id].name, status)
    /\ history' = [history EXCEPT !.quiet = FALSE, !.toggled = TRUE]
    /\ UNCHANGED <<previous_segmented_model_list, pc, mode>>
    /\ UNCHANGED <<pool_vars, calc_vars>>

\* SmartGridTable.selective_calculate up to the point where
\* ModelProcessor.selective_calculate blocks in
\* CalculatorThreadManager.calculate: segmentation, the choice of the
\* segments to calculate, the copy into the cache, and the hand-over.
selective_calculate ==
    /\ pc = "idle"
    /\ segmented_model_list' = segment_model(input_model)
    /\ model_list' = ModelsToCalculate(segmented_model_list')
    /\ previous_segmented_model_list' = segmented_model_list'
    /\ pc' = "calculate"
    /\ mode' = "selective"
    /\ history' = [history EXCEPT !.quiet_at_start = history.quiet,
                                  !.repeat = FALSE]
    /\ UNCHANGED input_model
    /\ UNCHANGED <<pool_vars, calc_vars>>

\* A force round that applies the selective rule to choose what to send.
force_calculate_selective ==
    /\ pc = "idle"
    /\ segmented_model_list' = segment_model(input_model)
    /\ model_list' = ModelsToCalculate(segmented_model_list')
    /\ pc' = "calculate"
    /\ mode' = "force"
    /\ history' = [history EXCEPT
                      !.quiet = FALSE,
                      !.quiet_at_start = FALSE,
                      !.repeat = /\ mode = "force"
                                 /\ history.mutated = {}
                                 /\ ~history.toggled]
    /\ UNCHANGED <<input_model, previous_segmented_model_list>>
    /\ UNCHANGED <<pool_vars, calc_vars>>

\* SmartGridTable.force_calculate up to the same point: every segment is
\* handed over, the cache is not yet written.
force_calculate ==
    /\ pc = "idle"
    /\ segmented_model_list' = segment_model(input_model)
    /\ model_list' = segmented_model_list'
    /\ pc' = "calculate"
    /\ mode' = "force"
    /\ history' = [history EXCEPT
                      !.quiet = FALSE,
                      !.quiet_at_start = FALSE,
                      !.repeat = /\ mode = "force"
                                 /\ history.mutated = {}
                                 /\ ~history.toggled]
    /\ UNCHANGED <<input_model, previous_segmented_model_list>>
    /\ UNCHANGED <<pool_vars, calc_vars>>

\* A cache that holds the segments themselves, not copies of them: the
\* caller's reset_changed_components reaches the cached entities.
calculate_return_shared_cache ==
    /\ pc = "calculate"
    /\ previous_segmented_model_list' =
          ResetShared(IF mode = "force" THEN segmented_model_list
                      ELSE previous_segmented_model_list)
    /\ input_model' = reset_changed_components(input_model)
    /\ segmented_model_list' = ResetShared(segmented_model_list)
    /\ model_list' = ResetShared(model_list)
    /\ pc' = "idle"
    /\ history' = [history EXCEPT !.quiet = (mode = "selective"),
                                  !.clean = NoChangedFlag(input_model),
                                  !.mutated = {},
                                  !.toggled = FALSE]
    /\ UNCHANGED mode
    /\ UNCHANGED <<pool_vars, calc_vars>>

\* CalculatorThreadManager.calculate returns (the round is complete); force
\* mode then copies the segments into the cache; back in SmartGridTable the
\* caller runs model.reset_changed_components().
calculate_return ==
    /\ pc = "calculate"
    /\ previous_segmented_model_list' =
          IF mode = "force" THEN segmented_model_list
          ELSE previous_segmented_model_list
    /\ input_model' = reset_changed_components(input_model)
    /\ segmented_model_list' = ResetShared(segmented_model_list)
    /\ model_list' = ResetShared(model_list)
    /\ pc' = "idle"
    /\ history' = [history EXCEPT !.quiet = (mode = "selective"),
                                  !.clean = NoChangedFlag(input_model),
                                  !.mutated = {},
                                  !.toggled = FALSE]
    /\ UNCHANGED mode
    /\ UNCHANGED <<pool_vars, calc_vars>>

Next ==
    \/ reload_modules
    \/ table_set_line_status
    \/ selective_calculate
    \/ force_calculate
    \/ calculate_return

Spec == Init /\ [][Next]_vars

\* ------------------------------------------------------- the calculators
\* One calculator of calculation/pypsa with the segment it was given:
\* PyPSACalculatorLOPF, PyPSACalculatorLPF and PyPSACalculatorPF, all built
\* on PyPSANetworkBuilder.  Powers are tokens: "0.0" is the number zero,
\* "prior" a value an earlier calculation left, "p" a value read from the
\* solved network.
MaxCalcEntities == 2
MaxSnapshots == 2

CalculatorMethods == {"lopf", "lpf", "pf"}

\* A line, generator, load or storage unit as its constructor leaves it
\* (output [False], active_power [0.0]) or as an earlier round left it.
CalcEntity(name, active, calculated) ==
    [name         |-> name,
     active       |-> active,
     active_power |-> << IF calculated THEN "prior" ELSE "0.0" >>,
     output       |-> << calculated >>]

\* A transformer: active_power_0, output and capacity.
CalcTransformer(name, active, calculated) ==
    [name           |-> name,
     active         |-> active,
     active_power_0 |-> << IF calculated THEN "prior" ELSE "0.0" >>,
     output         |-> << calculated >>,
     capacity       |-> IF calculated THEN "prior" ELSE "0.0"]

\* The lists of n lines (generators, loads, storage units), each active or
\* not, each with or without outputs of an earlier round.
CalcEntityLists(n) ==
    { [k \in 1..n |-> CalcEntity(k - 1, c[k][1], c[k][2])] :
        c \in [1..n -> BOOLEAN \X BOOLEAN] }

\* The same for transformers.
CalcTransformerLists(n) ==
    { [k \in 1..n |-> CalcTransformer(k - 1, c[k][1], c[k][2])] :
        c \in [1..n -> BOOLEAN \X BOOLEAN] }

CalcCounts ==
    { n \in [{"lines", "transformers", "generators", "loads", "storage_units"}
                -> 0..MaxCalcEntities] :
        n.lines + n.transformers + n.generators + n.loads + n.storage_units
            <= MaxCalcEntities }

\* The segments a calculator is given: at most MaxCalcEntities entities.
CalcSegments ==
    UNION { { [lines         |-> l,
               transformers  |-> t,
               generators    |-> g,
               loads         |-> d,
               storage_units |-> u] :
                l \in CalcEntityLists(n.lines),
                t \in CalcTransformerLists(n.transformers),
                g \in CalcEntityLists(n.generators),
                d \in CalcEntityLists(n.loads),
                u \in CalcEntityLists(n.storage_units) } :
            n \in CalcCounts }

\* snapshot_count copies of one value.
Repeat(value, snapshot_count) == [i \in 1..snapshot_count |-> value]

\* Only the active lines are cleared.
reset_active_lines(m, snapshot_count) ==
    [m EXCEPT !.lines =
        [k \in DOMAIN m.lines |->
            IF m.lines[k].active
            THEN [m.lines[k] EXCEPT
                    !.active_power = Repeat("0.0", snapshot_count),
                    !.output       = Repeat(FALSE, snapshot_count)]
            ELSE m.lines[k]]]

\* PyPSANetworkBuilder._reset_lines: every line's active_power and output
\* are cleared and filled with 0.0 and False, one per snapshot.
reset_lines(m, snapshot_count) ==
    [m EXCEPT !.lines =
        [k \in DOMAIN m.lines |->
            [m.lines[k] EXCEPT
                !.active_power = Repeat("0.0", snapshot_count),
                !.output       = Repeat(FALSE, snapshot_count)]]]

\* The part of _retrieve_results for lines, generators, loads and storage
\* units: the active ones receive the solved values and output True.
RetrieveList(lst, snapshot_count) ==
    [k \in DOMAIN lst |->
        IF lst[k].active
        THEN [lst[k] EXCEPT !.active_power = Repeat("p", snapshot_count),
                            !.output       = Repeat(TRUE, snapshot_count)]
        ELSE lst[k]]

\* The part of _retrieve_results for transformers, capacity included.
RetrieveTransformers(lst, snapshot_count) ==
    [k \in DOMAIN lst |->
        IF lst[k].active
        THEN [lst[k] EXCEPT !.active_power_0 = Repeat("p", snapshot_count),
                            !.output         = Repeat(TRUE, snapshot_count),
                            !.capacity       = "p"]
        ELSE lst[k]]

\* PyPSANetworkBuilder._retrieve_results.
retrieve_results(m, snapshot_count) ==
    [lines         |-> RetrieveList(m.lines, snapshot_count),
     transformers  |-> RetrieveTransformers(m.transformers, snapshot_count),
     generators    |-> RetrieveList(m.generators, snapshot_count),
     loads         |-> RetrieveList(m.loads, snapshot_count),
     storage_units |-> RetrieveList(m.storage_units, snapshot_count)]

\* What Network.lopf returns: solved, or not solved.
LopfStatus == { <<"ok", "optimal">>, <<"warning", "infeasible">> }

\* calculate() returns: the segment as the call leaves it, the status
\* fields, and the return value.
CalcReturn(m, status, condition, solver_invoked, succes) ==
    calculator' = [calculator EXCEPT !.pc             = "returned",
                                     !._input_model   = m,
                                     !._status        = status,
                                     !._condition     = condition,
                                     !.solver_invoked = solver_invoked,
                                     !.succes         = succes]

\* PyPSACalculatorLOPF.calculate.  lopf() is called outside any try: an
\* exception of the solver leaves calculate() with the lines reset and the
\* status fields as they were.
LOPF_calculate ==
    /\ calculator.pc = "ready"
    /\ calculator.method = "lopf"
    /\ LET m == reset_lines(calculator._input_model, calculator.snapshots)
       IN  IF Len(m.generators) = 0 /\ Len(m.storage_units) = 0
           THEN CalcReturn(m, "failed", "no generation", FALSE, FALSE)
           ELSE \/ \E status \in LopfStatus :
                      IF status = <<"ok", "optimal">>
                      THEN CalcReturn(retrieve_results(m, calculator.snapshots),
                                      status[1], status[2], TRUE, TRUE)
                      ELSE CalcReturn(m, status[1], status[2], TRUE, FALSE)
                \/ calculator' = [calculator EXCEPT !.pc             = "raised",
                                                    !._input_model   = m,
                                                    !.solver_invoked = TRUE]
    /\ UNCHANGED <<table_vars, pool_vars>>

\* PyPSACalculatorLPF.calculate.  The check before the solver looks at the
\* generators only; lpf() runs in a try.
LPF_calculate ==
    /\ calculator.pc = "ready"
    /\ calculator.method = "lpf"
    /\ LET m == reset_lines(calculator._input_model, calculator.snapshots)
       IN  IF Len(m.generators) = 0
           THEN CalcReturn(m, "failed", "no generation", FALSE, FALSE)
           ELSE \/ CalcReturn(retrieve_results(m, calculator.snapshots),
                              "ok", "succes", TRUE, TRUE)
                \/ CalcReturn(m, "warning", "failed", TRUE, FALSE)
    /\ UNCHANGED <<table_vars, pool_vars>>

\* PyPSACalculatorPF.calculate.  lpf() and pf() run in a try.
PF_calculate ==
    /\ calculator.pc = "ready"
    /\ calculator.method = "pf"
    /\ LET m == reset_lines(calculator._input_model, calculator.snapshots)
       IN  IF Len(m.generators) = 0 /\ Len(m.storage_units) = 0
           THEN CalcReturn(m, "failed", "no generation", FALSE, FALSE)
           ELSE \/ CalcReturn(retrieve_results(m, calculator.snapshots),
                              "ok", "succes", TRUE, TRUE)
                \/ CalcReturn(m, "warning", "failed", TRUE, FALSE)
    /\ UNCHANGED <<table_vars, pool_vars>>

\* A calculator of one of the three kinds, freshly constructed (status and
\* condition ""), with its segment set (set_input_model) and the snapshots
\* set (set_snapshots); "before" keeps the segment as it was handed over.
InitCalc ==
    /\ input_model = Model
    /\ segmented_model_list = <<>>
    /\ previous_segmented_model_list = <<>>
    /\ model_list = <<>>
    /\ pc = "calculator"
    /\ mode = "none"
    /\ history = NoHistory
    /\ PoolInit
    /\ \E method \in CalculatorMethods, snapshots \in 1..MaxSnapshots,
          m \in CalcSegments :
          calculator = [pc             |-> "ready",
                        method         |-> method,
                        snapshots      |-> snapshots,
                        _input_model   |-> m,
                        before         |-> m,
                        _status        |-> "",
                        _condition     |-> "",
                        solver_invoked |-> FALSE,
                        succes         |-> FALSE]

NextCalc ==
    \/ LOPF_calculate
    \/ LPF_calculate
    \/ PF_calculate

SpecCalc == InitCalc /\ [][NextCalc]_vars

\* ------------------------------------------------- reference notions
\* Ground truth for connectivity, defined on the input model only.
Range(f) == { f[i] : i \in DOMAIN f }

BusNameSet(m) == { b.name : b \in Range(m.buses) }

ActiveEdges(m) ==
    { e \in Range(m.lines) \cup Range(m.transformers) : e.active }

Adjacent(m, a, b) ==
    \E e \in ActiveEdges(m) :
        \/ e.bus0 = a /\ e.bus1 = b
        \/ e.bus0 = b /\ e.bus1 = a

\* The buses joined to a bus of S by a path of active edges.
RECURSIVE Reachable(_, _)
Reachable(m, S) ==
    LET edges == ActiveEdges(m)
        next  == { e.bus1 : e \in { d \in edges : d.bus0 \in S } }
                 \cup { e.bus0 : e \in { d \in edges : d.bus1 \in S } }
        T     == S \cup (next \cap BusNameSet(m))
    IN  IF T = S THEN S ELSE Reachable(m, T)

PathExists(m, a, b) == b \in Reachable(m, {a})

ConnectedComponents(m) == { Reachable(m, {a}) : a \in BusNameSet(m) }

HasActiveEdge(m, a) ==
    \E e \in ActiveEdges(m) : e.bus0 = a \/ e.bus1 = a

\* Views of the result of the last segment_model call.
Segmented == pc = "segmented"

SegmentIds == DOMAIN segmented_model_list

SegBusNames(s) == BusNameSet(s)

SameSegment(a, b) ==
    \E i \in SegmentIds : {a, b} \subseteq SegBusNames(segmented_model_list[i])

\* The places <<segment, position>> at which entity e is listed under "field".
Places(field, e) ==
    UNION { { <<i, k>> : k \in { j \in DOMAIN segmented_model_list[i][field] :
                                    segmented_model_list[i][field][j] = e } } :
            i \in SegmentIds }

InjectionFields == {"generators", "loads", "storage_units"}

AllFields == {"buses", "lines", "transformers"} \cup InjectionFields

\* ------------------------------------------------------------- claims
\* C1: partition completeness - the segments' bus lists together contain
\* every input bus exactly once, so the bus counts add up to the input's.
C1_PartitionComplete ==
    Segmented =>
        \A b \in Range(input_model.buses) : Cardinality(Places("buses", b)) = 1

\* C2: connectivity correctness - two different buses are in the same
\* segment if and only if a path of active lines and active transformers,
\* taken as undirected, joins them.
C2_ConnectivityCorrect ==
    Segmented =>
        \A a \in BusNameSet(input_model) :
            LET joined == Reachable(input_model, {a})
            IN  \A b \in BusNameSet(input_model) \ {a} :
                    SameSegment(a, b) <=> b \in joined

C2_Witness ==
    /\ Segmented
    /\ \E a \in BusNameSet(input_model), b \in BusNameSet(input_model) :
          a # b /\ SameSegment(a, b) /\ ~Adjacent(input_model, a, b)
    /\ \E a \in BusNameSet(input_model), b \in BusNameSet(input_model) :
          a # b /\ ~SameSegment(a, b)

\* C3: the number of returned segments equals the number of connected
\* components of the active-edge graph; the 8-bus test model gives 1 segment
\* (8 buses, 9 lines, 3 injections), and 2 segments of 4 buses and 4 lines
\* once line bus_3-bus_4 is inactive.
C3_SegmentCount ==
    Segmented =>
        /\ Len(segmented_model_list) = Cardinality(ConnectedComponents(input_model))
        /\ input_model = TestModel(FALSE) =>
              /\ Len(segmented_model_list) = 1
              /\ Len(segmented_model_list[1].buses) = 8
              /\ Len(segmented_model_list[1].lines) = 9
              /\ Len(segmented_model_list[1].generators)
                   + Len(segmented_model_list[1].loads)
                   + Len(segmented_model_list[1].storage_units) = 3
        /\ input_model = TestModel(TRUE) =>
              /\ Len(segmented_model_list) = 2
              /\ \A i \in {1, 2} :
                    /\ Len(segmented_model_list[i].buses) = 4
                    /\ Len(segmented_model_list[i].lines) = 4

\* C4: a bus with no active edge is a segment of its own, with no lines or
\* transformers and exactly the injections attached to it, wherever it
\* stands in the bus list.
AttachedTo(field, a) ==
    { e \in Range(input_model[field]) : e.bus0 = a }

C4_IsolatedBusOwnSegment ==
    Segmented =>
        \A b \in Range(input_model.buses) :
            ~HasActiveEdge(input_model, b.name) =>
                \E i \in SegmentIds :
                    /\ segmented_model_list[i].buses = <<b>>
                    /\ segmented_model_list[i].lines = <<>>
                    /\ segmented_model_list[i].transformers = <<>>
                    /\ \A f \in InjectionFields :
                          Range(segmented_model_list[i][f]) = AttachedTo(f, b.name)

\* C5: partition disjointness - no bus name is listed in two different
\* segments of one result.
C5_PartitionDisjoint ==
    Segmented =>
        \A i \in SegmentIds, j \in SegmentIds :
            i # j => SegBusNames(segmented_model_list[i])
                       \cap SegBusNames(segmented_model_list[j]) = {}

C5_Witness ==
    /\ Segmented
    /\ Len(segmented_model_list) >= 2
    /\ \E i \in SegmentIds : Len(segmented_model_list[i].buses) >= 2

\* C6: every active line and every generator, load and storage unit whose
\* bus0 names an input bus is listed exactly once, in the segment that holds
\* its bus0; and every entity listed in a segment is one of the input model.
C6_AssignedToBus0Segment ==
    Segmented =>
        /\ \A f \in {"lines"} \cup InjectionFields :
              \A e \in Range(input_model[f]) :
                  (e.bus0 \in BusNameSet(input_model) /\ (f = "lines" => e.active)) =>
                      /\ Cardinality(Places(f, e)) = 1
                      /\ \A p \in Places(f, e) :
                            e.bus0 \in SegBusNames(segmented_model_list[p[1]])
        /\ \A i \in SegmentIds : \A f \in AllFields :
              Range(segmented_model_list[i][f]) \subseteq Range(input_model[f])

\* C7: inactive lines and transformers behave as removed - buses that share
\* a segment are joined by active edges alone, and no segment lists an
\* inactive line or transformer.
C7_InactiveEdgesRemoved ==
    Segmented =>
        /\ \A i \in SegmentIds :
              \A e \in Range(segmented_model_list[i].lines)
                       \cup Range(segmented_model_list[i].transformers) : e.active
        /\ \A i \in SegmentIds :
              \A a \in SegBusNames(segmented_model_list[i]) :
                  SegBusNames(segmented_model_list[i])
                      \subseteq Reachable(input_model, {a})

InactiveEdges(m) ==
    { e \in Range(m.lines) \cup Range(m.transformers) : ~e.active }

C7_Witness ==
    /\ Segmented
    /\ \E e \in InactiveEdges(input_model) :
          /\ e.bus0 # e.bus1
          /\ {e.bus0, e.bus1} \subseteq BusNameSet(input_model)
          /\ \E i \in SegmentIds : e.bus0 \in SegBusNames(segmented_model_list[i])
          /\ \E i \in SegmentIds : e.bus1 \in SegBusNames(segmented_model_list[i])
          /\ ~SameSegment(e.bus0, e.bus1)

\* C8: an inactive generator, load or storage unit is listed in no segment.
C8_InactiveInjectionsExcluded ==
    Segmented =>
        \A i \in SegmentIds : \A f \in InjectionFields :
            \A e \in Range(segmented_model_list[i][f]) : e.active

\* C9: a model with zero buses gives the empty list of segments.
C9_NoBusesNoSegments ==
    (Segmented /\ Len(input_model.buses) = 0) => segmented_model_list = <<>>

C9_Witness ==
    /\ Segmented
    /\ Len(input_model.buses) = 0
    /\ Len(input_model.lines) > 0
    /\ segmented_model_list = <<>>

\* C10: selective skip law - when a selective round follows a completed
\* selective round (the caller having cleared the flags of the input model)
\* and no changed flag was set and no line switched in between, the second
\* round hands zero segments to the worker pool, whatever the flags were
\* during the first round.
RoundInFlight == pc = "calculate"

C10_SelectiveSkipLaw ==
    (RoundInFlight /\ mode = "selective" /\ history.quiet_at_start) =>
        Len(model_list) = 0

\* The step in which a round of the given mode is handed to the worker pool.
DispatchStep(m) == pc = "idle" /\ pc' = "calculate" /\ mode' = m

\* C11: selective dispatch rule - in selective_calculate a new segment is
\* sent to the worker pool if and only if no segment of the cache, as the
\* round found it, is both structurally equal and component-equal to it;
\* nothing but new segments is sent.
C11_SelectiveDispatchRule ==
    [][DispatchStep("selective") =>
        /\ \A i \in DOMAIN segmented_model_list' :
              (\E j \in DOMAIN model_list' :
                    model_list'[j] = segmented_model_list'[i])
              <=> ~ \E k \in DOMAIN previous_segmented_model_list :
                      /\ compare_model_structure(segmented_model_list'[i],
                                                 previous_segmented_model_list[k])
                      /\ compare_model_components(segmented_model_list'[i],
                                                  previous_segmented_model_list[k])
        /\ \A j \in DOMAIN model_list' :
              \E i \in DOMAIN segmented_model_list' :
                    model_list'[j] = segmented_model_list'[i]]_vars

\* A selective round that sends one segment and skips another.
C11_Witness ==
    /\ RoundInFlight /\ mode = "selective"
    /\ Len(model_list) > 0
    /\ Len(model_list) < Len(segmented_model_list)

\* The segments that list the component <<field, name>>.
Holders(e) ==
    { i \in SegmentIds :
        \E k \in DOMAIN segmented_model_list[i][e[1]] :
            segmented_model_list[i][e[1]][k].name = e[2] }

\* The cache was written by a round that found every changed flag cleared,
\* and since then exactly one component was replaced and no line switched.
OneEntityMutated ==
    /\ history.clean
    /\ ~history.toggled
    /\ Cardinality(history.mutated) = 1

\* C12: selective recompute locality - from a cache written by a round
\* with every changed flag cleared, setting the changed flag of exactly one
\* entity inside one segment makes the next selective_calculate send
\* exactly that segment and no other.
C12_SelectiveLocality ==
    (RoundInFlight /\ mode = "selective" /\ OneEntityMutated) =>
        \A e \in history.mutated :
            Holders(e) # {} =>
                /\ Len(model_list) = 1
                /\ \E i \in Holders(e) : model_list[1] = segmented_model_list[i]

\* One entity of one segment was mutated; another segment is skipped.
C12_Witness ==
    /\ RoundInFlight /\ mode = "selective" /\ OneEntityMutated
    /\ \E e \in history.mutated : Holders(e) # {}
    /\ Len(segmented_model_list) > 1
    /\ Len(model_list) = 1

\* C13: after a selective round has completed, the cache holds the new
\* partition and every entity stored in it has changed = false.
C13_CacheClearedAfterSelective ==
    (pc = "idle" /\ mode = "selective" /\ history.quiet) =>
        /\ previous_segmented_model_list = segmented_model_list
        /\ \A k \in DOMAIN previous_segmented_model_list :
              NoChangedFlag(previous_segmented_model_list[k])

\* C14: in both modes the cache is replaced only at the end of a completed
\* round - the step that puts a round in flight leaves the cache as the
\* previous round wrote it.
C14_CacheKeptWhileInFlight ==
    [][(pc = "idle" /\ pc' = "calculate") =>
        previous_segmented_model_list' = previous_segmented_model_list]_vars

\* The step in which the worker pool's round of the given mode returns.
ReturnStep(m) == pc = "calculate" /\ mode = m /\ pc' = "idle"

\* C15: force_calculate sends every segment of the new partition to the
\* worker pool whatever the cache and the changed flags are, and when it
\* returns the cache equals the new partition.
C15_ForceDispatchesAll ==
    [][/\ DispatchStep("force") =>
            model_list' = segment_model(input_model)
       /\ ReturnStep("force") =>
            /\ model_list = segmented_model_list
            /\ previous_segmented_model_list' = segmented_model_list]_vars

\* A force round that sends a segment the cache already holds.
C15_Witness ==
    /\ RoundInFlight /\ mode = "force"
    /\ \E j \in DOMAIN model_list : ~NoPreviousMatch(model_list[j])

RoundSlots == 1..Len(manager.model_list)

InRound == manager.pc \in {"start", "wait", "print"}

\* C17: round completion barrier - when calculate has passed its wait loop
\* and reads the results, every slot of the round has raised its
\* completion signal for this round, and the slot's status, condition,
\* build time and calculation time are what the solver produced for the
\* segment the slot was given in this round.
C17_CompletionBarrier ==
    manager.pc = "print" =>
        \A i \in RoundSlots :
            LET thread == worker_threads[i]
                instance == thread.calculation_instance
            IN  /\ signals[i].completed = 1
                /\ signals[i].finished_by = manager.model_list[i]
                /\ instance._input_model = manager.model_list[i]
                /\ thread.status = instance._status
                /\ thread.status_extended = instance._condition
                /\ thread.build_time = manager.model_list[i]
                /\ thread.calculation_time = manager.model_list[i]

\* The second round returns with every slot of a full round served.
C17_Witness ==
    /\ manager.pc = "print"
    /\ manager.round = MaxRounds
    /\ Len(manager.model_list) = MaxModels

\* C18: solver failures are local - a solver invocation that raises is
\* caught at the slot: the thread lives on and the slot reports status
\* warning or failed with condition "failed".
C18_SolverFailureLocal ==
    \A i \in DOMAIN signals :
        signals[i].raised =>
            /\ worker_thread_instances[i] # "raised"
            /\ worker_threads[i].calculation_instance._condition = "failed"
            /\ worker_threads[i].calculation_instance._status \in {"warning", "failed"}

\* C19: no conflation of signals across rounds - every round starts with
\* all completion signals clear; within a round a slot consumes at most one
\* start signal, runs the solver at most once and raises its completion
\* signal at most once, and exactly once each when calculate reads the
\* results; slots outside the round do nothing; a completion signal that is
\* set was raised by the work on this round's segment.
C19_NoSignalConflation ==
    /\ manager.pc = "idle" =>
          \A i \in DOMAIN worker_threads : ~worker_threads[i].finished_event
    /\ InRound =>
          \A i \in DOMAIN worker_threads :
              /\ signals[i].consumed <= 1
              /\ signals[i].solved <= signals[i].consumed
              /\ signals[i].completed <= signals[i].solved
              /\ i \notin RoundSlots => signals[i].consumed = 0
              /\ (manager.pc = "print" /\ i \in RoundSlots) =>
                    signals[i].completed = 1
              /\ worker_threads[i].finished_event =>
                    /\ i \in RoundSlots
                    /\ signals[i].finished_by = manager.model_list[i]

\* In the second round a completion signal is set while the orchestrator
\* waits, on a slot that also served the first round.
C19_Witness ==
    /\ manager.pc = "wait"
    /\ manager.round = MaxRounds
    /\ \E i \in RoundSlots : worker_threads[i].finished_event

AllTerminated == \A i \in DOMAIN worker_thread_instances : Terminated(i)

\* C20: shutdown drains cleanly - once shutdown is called (between rounds)
\* it returns, and then every worker thread has terminated.
C20_ShutdownDrains ==
    shutdown_flag ~> (manager.pc = "shut" /\ AllTerminated)

\* shutdown is at work while one worker still exports the last round and
\* another waits for its start signal or is about to check the loop
\* condition.
C20_Witness ==
    /\ manager.pc = "wakeup"
    /\ \E i, j \in DOMAIN worker_thread_instances :
          /\ worker_thread_instances[i] = "export"
          /\ worker_thread_instances[j] \in {"wait", "loop"}

\* Slot i has been given its model and its start signal in this round.
Started(i) ==
    /\ InRound
    /\ i \in RoundSlots
    /\ manager.pc = "start" => i < manager.i

\* C21: slot assignment - in a round with N segments slot i holds exactly
\* the i-th submitted segment from its start signal on, distinct segments
\* are in distinct slots, and a slot runs the solver at most once in the
\* round, on that segment; slots beyond N run nothing.
C21_SlotAssignment ==
    InRound =>
        \A i \in DOMAIN worker_threads :
            /\ Started(i) => worker_threads[i].model = manager.model_list[i]
            /\ \A j \in DOMAIN worker_threads :
                  (Started(i) /\ Started(j) /\ i # j) =>
                        worker_threads[i].model # worker_threads[j].model
            /\ signals[i].solved <= 1
            /\ signals[i].solved = 1 =>
                  /\ i \in RoundSlots
                  /\ worker_threads[i].calculation_instance._input_model =
                        manager.model_list[i]

\* Every slot of a full round has solved its segment.
C21_Witness ==
    /\ manager.pc = "wait"
    /\ Len(manager.model_list) = MaxModels
    /\ \A i \in RoundSlots : signals[i].solved = 1

Max(a, b) == IF a > b THEN a ELSE b

\* C22: pool growth - the pool has its initial slots after construction;
\* after any sequence of rounds the slot count is the larger of the initial
\* count and the largest number of segments submitted so far; the count
\* never decreases and a slot, once created, stays the slot it was.
C22_PoolGrowth ==
    /\ [](/\ Len(worker_threads) = Max(InitialThreads, manager.largest)
          /\ Len(worker_thread_instances) = Len(worker_threads)
          /\ \A i \in DOMAIN worker_threads : worker_threads[i].model_id = i - 1)
    /\ [][/\ Len(worker_threads') >= Len(worker_threads)
          /\ \A i \in DOMAIN worker_threads :
                worker_threads'[i].model_id = worker_threads[i].model_id]_vars

\* A slot created for an oversized round, which it served, is given a
\* segment of the next round.
C22_Witness ==
    /\ manager.round = MaxRounds
    /\ Len(worker_threads) = MaxModels
    /\ MaxModels > InitialThreads
    /\ worker_threads[MaxModels].calculation_instance._input_model =
          ModelOfRound(MaxRounds - 1, MaxModels)
    /\ worker_threads[MaxModels].model = ModelOfRound(MaxRounds, MaxModels)
    /\ worker_threads[MaxModels].wakeup_event

\* C26: export_result is best-effort - an export_result that raises in a
\* slot blocks no round: a slot that is given a start signal has a thread
\* that did not end in export_result.
C26_ExportBestEffort ==
    \A i \in DOMAIN worker_threads :
        (worker_threads[i].wakeup_event /\ ~shutdown_flag) =>
            worker_thread_instances[i] # "export_raised"

\* C28: set_calculation_method - every slot's solver instance is bound to
\* the current selector, slots added by pool growth included; a change of
\* the selector replaces the instance of every slot by a new one; a call
\* with the current selector replaces no instance.
C28_SetCalculationMethod ==
    /\ [](\A i \in DOMAIN worker_threads :
            worker_threads[i].calculation_instance.method =
                manager.calculation_method)
    /\ [][/\ manager'.calculation_method # manager.calculation_method =>
                \A i \in DOMAIN worker_threads :
                    worker_threads'[i].calculation_instance =
                        CalculationInstance(manager'.calculation_method)
          /\ (/\ manager.pc = "idle" /\ manager'.pc = "idle"
              /\ manager'.calculation_method = manager.calculation_method) =>
                \A i \in DOMAIN worker_threads :
                    worker_threads'[i].calculation_instance =
                        worker_threads[i].calculation_instance]_vars

\* After a change of the selector a round grew the pool, and an old slot
\* and a new slot have both solved with an instance of the new selector.
C28_Witness ==
    /\ manager.calculation_method # "optimize"
    /\ Len(worker_threads) > InitialThreads
    /\ \A i \in DOMAIN worker_threads :
          /\ worker_threads[i].calculation_instance.method =
                manager.calculation_method
          /\ worker_threads[i].calculation_instance._input_model # NoModel

\* The same entities, listed in the opposite order.
Reverse(lst) == [k \in 1..Len(lst) |-> lst[Len(lst) + 1 - k]]

ReverseModel(m) == [f \in DOMAIN m |-> Reverse(m[f])]

\* C29: segment equality is by entity sets - compare_model_structure and
\* compare_model_components return true for two segments that hold the
\* same entities by (name, changed), whatever the order of the lists; here
\* for a returned segment and the same segment listed backwards.
C29_EqualityByEntitySets ==
    Segmented =>
        \A i \in SegmentIds :
            /\ compare_model_structure(segmented_model_list[i],
                                       ReverseModel(segmented_model_list[i]))
            /\ compare_model_components(segmented_model_list[i],
                                        ReverseModel(segmented_model_list[i]))

\* The lines and transformers listed in segment i.
EdgesOfSegment(i) ==
    Range(segmented_model_list[i].lines)
        \cup Range(segmented_model_list[i].transformers)

\* C30: for every returned segment and every line or transformer in it,
\* bus0 and bus1 both name buses of that segment, given that both name
\* buses of the input model.
C30_EdgeEndpointsInSegment ==
    Segmented =>
        \A i \in SegmentIds :
            \A e \in EdgesOfSegment(i) :
                {e.bus0, e.bus1} \subseteq BusNameSet(input_model) =>
                    {e.bus0, e.bus1} \subseteq SegBusNames(segmented_model_list[i])

\* Two segments, one with an edge between two of its buses, and an
\* inactive edge of the input between buses of different segments.
C30_Witness ==
    /\ Segmented
    /\ Len(segmented_model_list) >= 2
    /\ \E i \in SegmentIds : \E e \in EdgesOfSegment(i) : e.bus0 # e.bus1
    /\ \E e \in Range(input_model.lines) \cup Range(input_model.transformers) :
          /\ ~e.active
          /\ {e.bus0, e.bus1} \subseteq BusNameSet(input_model)
          /\ ~SameSegment(e.bus0, e.bus1)

\* A segment every calculator of the repository reports as failed with
\* condition "no generation": it has no generator and no storage unit.
FailsToSolve(m) == Len(m.generators) = 0 /\ Len(m.storage_units) = 0

\* C27: stale failure is not retried - a segment whose solve failed in one
\* round (here: one the round dispatched and that has no generation) and
\* whose entities and topology are unchanged afterwards is not dispatched
\* by the next selective_calculate round.
C27_StaleFailureNotRetried ==
    [][(/\ DispatchStep("selective")
        /\ mode # "none"
        /\ history.mutated = {}
        /\ ~history.toggled)
       => \A j \in DOMAIN model_list :
             FailsToSolve(model_list[j]) =>
                 model_list[j] \notin Range(model_list')]_vars

CalcDone == calculator.pc \in {"returned", "raised"}

\* The calculation of the segment failed: calculate() returned False, or
\* the solver's exception left it.
CalcFailed ==
    \/ calculator.pc = "raised"
    \/ calculator.pc = "returned" /\ ~calculator.succes

NoGeneration(m) == Len(m.generators) = 0 /\ Len(m.storage_units) = 0

ReportedNoGeneration ==
    calculator._status = "failed" /\ calculator._condition = "no generation"

\* C24: for every calculation method, a segment is reported with status
\* "failed" and condition "no generation", without the solver being
\* invoked, exactly when it has no generator and no storage unit; a
\* segment with a storage unit or a generator is never reported so.
C24_NoGenerationRule ==
    CalcDone =>
        IF NoGeneration(calculator.before)
        THEN ReportedNoGeneration /\ ~calculator.solver_invoked
        ELSE ~ReportedNoGeneration

\* C25: a failed segment leaves outputs untouched - when the calculation
\* of a segment fails, the output arrays of every entity of the segment,
\* lines included, keep the values they had before.
C25_FailedLeavesOutputsUntouched ==
    CalcFailed => calculator._input_model = calculator.before

\* C25, amended: when calculate() fails, every generator, load, storage
\* unit and transformer keeps its outputs, and every line, active or not,
\* has active_power 0.0 and output False for each snapshot.
C25_FailedResetsLinesOnly ==
    CalcFailed =>
        /\ \A f \in {"transformers", "generators", "loads", "storage_units"} :
              calculator._input_model[f] = calculator.before[f]
        /\ Len(calculator._input_model.lines) = Len(calculator.before.lines)
        /\ \A k \in DOMAIN calculator.before.lines :
              LET line == calculator._input_model.lines[k]
              IN  /\ line.name = calculator.before.lines[k].name
                  /\ line.active = calculator.before.lines[k].active
                  /\ line.active_power = Repeat("0.0", calculator.snapshots)
                  /\ line.output = Repeat(FALSE, calculator.snapshots)

\* A failed calculation of a segment with an inactive line and another
\* entity, both with outputs of an earlier round.
C25_Witness ==
    /\ CalcFailed
    /\ \E k \in DOMAIN calculator.before.lines :
          /\ ~calculator.before.lines[k].active
          /\ calculator.before.lines[k].output = <<TRUE>>
    /\ \E f \in {"transformers", "generators", "loads", "storage_units"} :
          \E k \in DOMAIN calculator.before[f] :
              calculator.before[f][k].output = <<TRUE>>

\* The position of the bus of that name in the bus list of the input model.
InputPosition(bus_name) ==
    CHOOSE k \in DOMAIN input_model.buses : input_model.buses[k].name = bus_name

\* C31: segments are returned in the order of the input position of their
\* first bus, and the buses inside a segment keep their input order; in the
\* split test model segment 0 holds bus_0..bus_3 with the generator and
\* the storage unit, and segment 1 holds bus_4..bus_7 with the load.
C31_SegmentOrder ==
    Segmented =>
        /\ \A i \in SegmentIds : Len(segmented_model_list[i].buses) >= 1
        /\ \A i \in SegmentIds, j \in SegmentIds :
              i < j =>
                  InputPosition(segmented_model_list[i].buses[1].name)
                      < InputPosition(segmented_model_list[j].buses[1].name)
        /\ \A i \in SegmentIds :
              \A a \in DOMAIN segmented_model_list[i].buses,
                 b \in DOMAIN segmented_model_list[i].buses :
                  a < b =>
                      InputPosition(segmented_model_list[i].buses[a].name)
                          < InputPosition(segmented_model_list[i].buses[b].name)
        /\ input_model = TestModel(TRUE) =>
              /\ Len(segmented_model_list) = 2
              /\ segmented_model_list[1].buses = [k \in 1..4 |-> Bus(k - 1)]
              /\ segmented_model_list[1].generators = << Component(0, 0) >>
              /\ segmented_model_list[1].storage_units = << Component(0, 2) >>
              /\ segmented_model_list[1].loads = <<>>
              /\ segmented_model_list[2].buses = [k \in 1..4 |-> Bus(k + 3)]
              /\ segmented_model_list[2].loads = << Component(0, 6) >>
              /\ segmented_model_list[2].generators = <<>>
              /\ segmented_model_list[2].storage_units = <<>>

\* The split test model, segmented.
C31_Witness ==
    /\ Segmented
    /\ input_model = TestModel(TRUE)
    /\ Len(segmented_model_list) = 2

\* The input model with bus0 and bus1 of edge k of the list "field" swapped.
SwapEndpoints(m, field, k) ==
    [m EXCEPT ![field][k].bus0 = m[field][k].bus1,
              ![field][k].bus1 = m[field][k].bus0]

\* The partition of the buses a list of segments stands for.
BusPartition(segments) ==
    { BusNameSet(segments[i]) : i \in DOMAIN segments }

\* C32: edges are undirected for connectivity - swapping bus0 and bus1 of
\* any active line or transformer does not change the partition of the
\* buses into segments.
C32_EdgesUndirected ==
    Segmented =>
        \A field \in {"lines", "transformers"} :
            \A k \in DOMAIN input_model[field] :
                input_model[field][k].active =>
                    BusPartition(segment_model(SwapEndpoints(input_model, field, k)))
                        = BusPartition(segmented_model_list)

\* A segmented model with an active edge between two different buses of
\* the model, and more than one segment.
C32_Witness ==
    /\ Segmented
    /\ Len(segmented_model_list) >= 2
    /\ \E e \in ActiveEdges(input_model) :
          /\ e.bus0 # e.bus1
          /\ {e.bus0, e.bus1} \subseteq BusNameSet(input_model)
          /\ InputPosition(e.bus0) > InputPosition(e.bus1)

C34_SegmentModelTerminates ==
    pc = "input" =>
        LET work == segment_model_work(input_model)
        IN  /\ work.rounds <= Len(input_model.buses) + 1
            /\ work.passes <= Len(input_model.buses) + 1

\* The call has returned on a model with a self-loop edge and an edge
\* that names no bus of the model.
HasSelfLoop(m) == \E e \in ActiveEdges(m) : e.bus0 = e.bus1

HasDanglingEdge(m) ==
    \E e \in ActiveEdges(m) : ~({e.bus0, e.bus1} \subseteq BusNameSet(m))

C34_Witness ==
    /\ Segmented
    /\ HasSelfLoop(input_model)
    /\ HasDanglingEdge(input_model)

\* C35: the first selective_calculate call of a ModelProcessor (no round
\* before it, the cache empty) hands every segment of the partition to the
\* worker pool.
C35_FirstSelectiveDispatchesAll ==
    [][(/\ DispatchStep("selective")
        /\ mode = "none"
        /\ previous_segmented_model_list = <<>>)
       => /\ segmented_model_list' = segment_model(input_model)
          /\ model_list' = segmented_model_list']_vars

\* A selective round in flight on a freshly loaded table (no flag has been
\* cleared yet) that was handed all of its two or more segments.
C35_Witness ==
    /\ RoundInFlight
    /\ mode = "selective"
    /\ ~history.quiet_at_start
    /\ Len(segmented_model_list) >= 2
    /\ model_list = segmented_model_list
    /\ \A f \in {"transformers", "generators", "loads", "storage_units"} :
          \A k \in DOMAIN input_model[f] : input_model[f][k].changed
    /\ \E f \in {"transformers", "generators", "loads", "storage_units"} :
          input_model[f] # <<>>

\* The positions of a worker between its wait for the start signal and the
\* test of the shutdown flag, and the exit that test leads to.
BeforeSolver == {"wait", "clear", "check", "returned"}

\* C36: a slot woken while the shutdown flag is set exits its loop without
\* invoking the solver (no set_input_model, build_model or calculate) and
\* without raising its completion signal: with the flag set, a slot that
\* waits for its start signal or has just passed it stays before the
\* solver, and the flag is never taken back.
C36_WokenUnderShutdownExits ==
    /\ [][shutdown_flag => shutdown_flag']_vars
    /\ [][\A i \in DOMAIN worker_thread_instances :
            (shutdown_flag /\ worker_thread_instances[i] \in BeforeSolver) =>
                /\ i \in DOMAIN worker_thread_instances'
                /\ worker_thread_instances'[i] \in BeforeSolver
                /\ signals'[i].solved = signals[i].solved
                /\ signals'[i].completed = signals[i].completed
                /\ worker_threads'[i].finished_event = worker_threads[i].finished_event
                /\ worker_threads'[i].calculation_instance
                      = worker_threads[i].calculation_instance]_vars

\* A slot that shutdown() woke has left its loop: it consumed one start
\* signal more than it ran the solver, and its completion signal is down.
C36_Witness ==
    /\ shutdown_flag
    /\ \E i \in DOMAIN worker_thread_instances :
          /\ worker_thread_instances[i] = "returned"
          /\ signals[i].consumed = signals[i].solved + 1
          /\ signals[i].solved >= 1
          /\ ~worker_threads[i].finished_event

\* Slot i has its start signal raised while its worker is still in
\* export_result of the round before.
StartedDuringExport(i) ==
    /\ i \in DOMAIN worker_threads
    /\ ~shutdown_flag
    /\ worker_threads[i].wakeup_event
    /\ worker_thread_instances[i] = "export"

\* Slot i has run the segment of the round once and raised its completion
\* signal for it.
ServedOnce(i) ==
    /\ i \in DOMAIN worker_threads
    /\ i \in RoundSlots
    /\ signals[i].solved = 1
    /\ signals[i].completed = 1
    /\ signals[i].finished_by = manager.model_list[i]

\* C37: a start signal raised for round k+1 while the slot is still in
\* export_result of round k is not lost - the slot eventually runs the
\* segment of round k+1 exactly once and raises its completion signal.
C37_StartSignalNotLost ==
    \A i \in 1..MaxThreads : StartedDuringExport(i) ~> ServedOnce(i)

\* The names of the entities segment s lists under "field".
EntityNames(s, field) == { s[field][k].name : k \in DOMAIN s[field] }

\* C38: within one round no entity (bus, line, transformer, generator,
\* load, storage unit) belongs to the segments of two different slots:
\* the segments handed to the worker pool, of which slot i receives the
\* i-th, list no entity twice, neither in two segments nor in one.
C38_NoEntityInTwoSlots ==
    RoundInFlight =>
        /\ \A i \in DOMAIN model_list, j \in DOMAIN model_list :
              i # j =>
                  \A field \in DOMAIN model_list[i] :
                      EntityNames(model_list[i], field)
                          \cap EntityNames(model_list[j], field) = {}
        /\ \A i \in DOMAIN model_list :
              \A field \in DOMAIN model_list[i] :
                  Cardinality(EntityNames(model_list[i], field))
                      = Len(model_list[i][field])

\* A round in flight with two segments or more, one of them with a
\* generator, load, storage unit or transformer.
C38_Witness ==
    /\ RoundInFlight
    /\ Len(model_list) >= 2
    /\ \E i \in DOMAIN model_list :
          \E field \in {"transformers", "generators", "loads", "storage_units"} :
              model_list[i][field] # <<>>

\* C39: the cache is an independent deep copy - a change of entity flags
\* of the input model after a round (reset_changed_components run by the
\* caller, a line switched, a module reloaded) does not change the
\* entities stored in the cache: the return of a selective round leaves
\* the cache as the round wrote it, the return of a force round leaves in
\* it the segments as they were before the caller's reset, and the
\* handlers between two rounds leave it alone.
C39_CacheIndependentCopy ==
    /\ [][ReturnStep("selective") =>
            previous_segmented_model_list' = previous_segmented_model_list]_vars
    /\ [][ReturnStep("force") =>
            previous_segmented_model_list' = segmented_model_list]_vars
    /\ [][(pc = "idle" /\ pc' = "idle") =>
            previous_segmented_model_list' = previous_segmented_model_list]_vars

\* After a round the caller has cleared every flag of the input model and
\* the cache still holds an entity with its changed flag set.
C39_Witness ==
    /\ pc = "idle"
    /\ mode = "selective"
    /\ NoChangedFlag(input_model)
    /\ \E k \in DOMAIN previous_segmented_model_list :
          ~NoChangedFlag(previous_segmented_model_list[k])

\* A calculate() call made after shutdown() has returned, with at least
\* one segment, is under way.
CalledAfterShutdown ==
    shutdown_flag /\ InRound /\ Len(manager.model_list) >= 1

\* C40: after shutdown() has returned, a calculate() call with at least
\* one segment never invokes the solver and never returns - every worker
\* has left its loop or, created by this call, leaves it at once; no
\* solver runs, no completion signal is raised, and the call stays at its
\* start signals or in the wait for the completion signal of its first
\* slot.
C40_CalculateAfterShutdownBlocks ==
    CalledAfterShutdown =>
        /\ manager.pc \in {"start", "wait"}
        /\ manager.pc = "wait" => manager.i = 1
        /\ \A i \in DOMAIN worker_threads :
              /\ worker_thread_instances[i] = "loop" \/ Terminated(i)
              /\ signals[i].solved = 0
              /\ signals[i].completed = 0
              /\ ~worker_threads[i].finished_event

\* The call waits for the completion signal of its first slot; a worker it
\* created has left at once, and a start signal it raised is still up.
C40_Witness ==
    /\ CalledAfterShutdown
    /\ manager.pc = "wait"
    /\ Len(worker_threads) > InitialThreads
    /\ \A i \in DOMAIN worker_threads : Terminated(i)
    /\ worker_threads[1].wakeup_event

====
